---- MODULE Spec2Model ----
(***************************************************************************)
(* A state-machine model of the stateful parts of the pycode repository:   *)
(*   - SummarizingMessageHistory (chat_apps/tchat_gpt_with_summary_final,  *)
(*     tchat-gpt-with-summary-final, chat_apps/tchat_gpt_with_summary_test)*)
(*   - DatabaseService.execute_query (langchain_agents_demo/tools)         *)
(*   - AgentService / AgentAPI initialisation and query execution          *)
(*   - MessageHistoryManager (langchain_demos/agents/factory.py)           *)
(*   - ReportService (langchain_agents_demo/tools/reporting.py)            *)
(*   - boolean_search (rag_basics/boolean_search.py)                       *)
(* Each component has its own specification over the shared variables.    *)
(***************************************************************************)
EXTENDS Integers, Sequences, FiniteSets, TLC

VARIABLES
    \* SummarizingMessageHistory
    variant,              \* which of the three source files the object comes from
    messages,             \* self.messages
    summarized_messages,  \* self._summarized_messages (caching variants)
    current_summary,      \* self.current_summary (caching variants)
    ret,                  \* the last call on the history and what it returned
    \* DatabaseService
    db,                   \* the SQLite database file behind the connection manager
    dbret,                \* the last execute_query call and its outcome
    \* AgentService / AgentAPI
    model_configs,        \* the keys of config.models.MODEL_CONFIGS
    config,               \* the AppConfig the service and the API were built with
    service,              \* an AgentService object used directly
    api,                  \* an AgentAPI object and the AgentService it holds
    svcret,               \* the last call on the service or the API and its outcome
    \* MessageHistoryManager
    manager,              \* self.histories (session id -> object) and self.max_sessions
    heap,                 \* the ChatMessageHistory objects created so far, by identity
    handed_out,           \* per session id, the object the last lookup returned (0: none)
    hmret,                \* the last call on the manager or on a history object
    \* ReportService
    files,                \* the report directory: file name -> content
    clock,                \* int(time.time())
    platform,             \* "posix" or "windows": what Path.rename does to an existing target
    filename,             \* the filename a caller keeps using
    written,              \* the contents written by the successful calls so far, in order
    rptret,               \* the last call on the report service and its outcome
    \* boolean_search
    search_query,         \* query: the text searched for, as the words and signs it is made of
    documents,            \* documents: the texts searched
    boolean_results,      \* boolean_results: whether the search was made, and the
                          \* list of (doc_id, doc) it returned
    \* rag_pipeline / retrieve
    rag_documents,        \* documents: the texts the index was built from, in order
    query_distances,      \* the L2 distance of the query to each indexed document
    relevance,            \* the (distance, threshold) pairs is_relevant accepts
    ragret,               \* the last retrieve or rag_pipeline call and what it did
    \* chat() and run_test_conversation
    chat_pc,              \* where the conversation loop stands
    user_input,           \* the line read last
    answer,               \* what the chat model answered in this turn
    inputs_read,          \* how many lines the loop has read
    model_calls,          \* how many times the chat model was invoked
    chat_event,           \* what the last step of the loop was
    printed,              \* what the last step of the loop printed
    calls_get_history,    \* whether RunnableWithMessageHistory calls _get_history
    prompt_history        \* the history the chat model is prompted with in this turn

summaryVars == <<variant, messages, summarized_messages, current_summary, ret>>

dbVars == <<db, dbret>>

serviceVars == <<model_configs, config, service, api, svcret>>

historyVars == <<manager, heap, handed_out, hmret>>

reportVars == <<files, clock, platform, filename, written, rptret>>

searchVars == <<search_query, documents, boolean_results>>

ragVars == <<rag_documents, query_distances, relevance, ragret>>

chatVars ==
    <<chat_pc, user_input, answer, inputs_read, model_calls, chat_event, printed,
      calls_get_history, prompt_history>>

vars ==
    <<summaryVars, dbVars, serviceVars, historyVars, reportVars, searchVars, ragVars,
      chatVars>>

\* what each component leaves alone
SummaryFrame == UNCHANGED <<dbVars, serviceVars, historyVars, reportVars, searchVars,
              ragVars, chatVars>>

DbFrame == UNCHANGED <<summaryVars, serviceVars, historyVars, reportVars, searchVars,
              ragVars, chatVars>>

ServiceFrame == UNCHANGED <<summaryVars, dbVars, historyVars, reportVars, searchVars,
              ragVars, chatVars>>

HistoryFrame == UNCHANGED <<summaryVars, dbVars, serviceVars, reportVars, searchVars,
              ragVars, chatVars>>

SearchFrame ==
    UNCHANGED <<summaryVars, dbVars, serviceVars, historyVars, reportVars,
              ragVars, chatVars>>

ReportFrame == UNCHANGED <<summaryVars, dbVars, serviceVars, historyVars, searchVars,
              ragVars, chatVars>>

RagFrame ==
    UNCHANGED <<summaryVars, dbVars, serviceVars, historyVars, reportVars, searchVars,
              chatVars>>

ChatFrame ==
    UNCHANGED <<dbVars, serviceVars, historyVars, reportVars, searchVars, ragVars>>

\* Python's None
None == "None"

\* s[-n:] and s[:-n] of Python for a sequence s
Last(s, n) == IF Len(s) <= n THEN s ELSE SubSeq(s, Len(s) - n + 1, Len(s))

DropLast(s, n) == IF Len(s) <= n THEN <<>> ELSE SubSeq(s, 1, Len(s) - n)

RECURSIVE SumSeq(_)
SumSeq(s) == IF s = <<>> THEN 0 ELSE Head(s) + SumSeq(Tail(s))

(***************************************************************************)
(* SummarizingMessageHistory                                               *)
(***************************************************************************)

\* bound: the longest history explored
MaxMessages == 4

\* message_history = SummarizingMessageHistory(max_tokens=30)
max_tokens == 30

\* len(self.messages) < 4 / >= 4
MinMessagesToSummarize == 4

\* self.messages[-2:] / self.messages[:-2]
RecentCount == 2

Variants == {"final", "root", "test"}

\* message contents a caller can add, with the token count the chat model
\* reports for each (get_num_tokens)
Contents == {"hi", "what is 1+1?", "a long question"}

get_num_tokens(content) ==
    CASE content = <<"hi">> -> 1
      [] content = <<"what is 1+1?">> -> 8
      [] content = <<"a long question">> -> 31
      [] OTHER -> 0

MessageTypes == {"human", "ai"}

\* a BaseMessage: its type and its content (a sequence of text fragments)
Message(type, content) == [type |-> type, content |-> content]

UserMessages == {Message(t, <<c>>) : t \in MessageTypes, c \in Contents}

\* what the summarizing chain can answer
Summaries == {"S1", "S2"}

SummaryPrefix == "Previous conversation summary: "

SummaryUnavailable == "Previous conversation context unavailable due to summarization error."

HardcodedSummary == "The human asks the AI what 1+1 is, and the AI responds that 1+1 equals 2."

\* total_tokens = sum(get_num_tokens(msg.content) for msg in self.messages)
total_tokens(msgs) == SumSeq([i \in 1..Len(msgs) |-> get_num_tokens(msgs[i].content)])

\* "\n".join(f"{msg.type}: {msg.content}" for msg in messages_to_summarize)
summary_text(msgs) == [i \in 1..Len(msgs) |-> <<msgs[i].type, ": ", msgs[i].content>>]

\* if total_tokens <= self.max_tokens: return self.messages
NeedsSummaryTokensOnly(msgs) == ~(total_tokens(msgs) <= max_tokens)

\* if total_tokens <= self.max_tokens or len(self.messages) < 4: return self.messages
NeedsSummaryOffByOne(msgs) ==
    ~(total_tokens(msgs) <= max_tokens \/ Len(msgs) <= MinMessagesToSummarize)

NeedsSummary(msgs) ==
    ~(total_tokens(msgs) <= max_tokens \/ Len(msgs) < MinMessagesToSummarize)

\* SystemMessage(content=f"Previous conversation summary: {summary}")
SummaryMessage(v, summary) ==
    IF v = "root"
    THEN Message("system", <<HardcodedSummary>>)
    ELSE Message("system", <<SummaryPrefix, summary>>)

\* [summary message, *recent_messages], with every stored message kept
SummarizedHistoryKeepsAll(v, msgs, summary) == <<SummaryMessage(v, summary)>> \o msgs

\* [summary message, *recent_messages]
SummarizedHistory(v, msgs, summary) ==
    <<SummaryMessage(v, summary)>> \o Last(msgs, RecentCount)

NoCall == [op |-> "none", result |-> <<>>, llm_called |-> FALSE, llm_text |-> <<>>,
           llm_ok |-> FALSE, llm_answer |-> None, raised |-> None]

InitSummary ==
    /\ variant \in Variants
    /\ messages = <<>>
    /\ summarized_messages = None
    /\ current_summary = None
    /\ ret = NoCall

\* add_message without the reset of the cache
append_message_keeping_cache(m) ==
    /\ messages' = Append(messages, m)
    /\ ret' = [NoCall EXCEPT !.op = "add_message"]
    /\ UNCHANGED <<variant, summarized_messages, current_summary>>

\* what add_message does to the history object
append_message(m) ==
    /\ messages' = Append(messages, m)
    /\ summarized_messages' = None
    /\ ret' = [NoCall EXCEPT !.op = "add_message"]
    /\ UNCHANGED <<variant, current_summary>>

add_message(m) ==
    /\ Len(messages) < MaxMessages
    /\ append_message(m)
    /\ SummaryFrame

clear ==
    /\ messages' = <<>>
    /\ summarized_messages' = None
    /\ current_summary' = None
    /\ ret' = [NoCall EXCEPT !.op = "clear"]
    /\ UNCHANGED variant
    /\ SummaryFrame

get_messages ==
    /\ ret' = [NoCall EXCEPT !.op = "get_messages",
                             !.result = IF variant # "final" /\ summarized_messages # None
                                        THEN summarized_messages
                                        ELSE messages]
    /\ UNCHANGED <<variant, messages, summarized_messages, current_summary>>
    /\ SummaryFrame

\* what get_messages_for_llm does to the history object when no summary is
\* needed
return_messages ==
    /\ ~NeedsSummary(messages) \/ DropLast(messages, RecentCount) = <<>>
    /\ ret' = [NoCall EXCEPT !.op = "get_messages_for_llm", !.result = messages]
    /\ summarized_messages' = IF NeedsSummary(messages) THEN summarized_messages ELSE None
    /\ UNCHANGED <<variant, messages, current_summary>>

get_messages_for_llm_full ==
    /\ return_messages
    /\ SummaryFrame

\* _create_summarized_history storing what it returns in self.messages
return_summarized_storing(summary) ==
    /\ NeedsSummary(messages)
    /\ DropLast(messages, RecentCount) # <<>>
    /\ LET final_messages == SummarizedHistory(variant, messages, summary)
       IN /\ ret' = [op |-> "get_messages_for_llm", result |-> final_messages,
                      llm_called |-> TRUE, llm_ok |-> TRUE, llm_answer |-> summary,
                      raised |-> None,
                      llm_text |-> summary_text(DropLast(messages, RecentCount))]
          /\ messages' = final_messages
          /\ summarized_messages' = IF variant = "final" THEN None ELSE final_messages
          /\ current_summary' = IF variant = "final" THEN None ELSE summary
    /\ UNCHANGED variant

\* what get_messages_for_llm does to the history object when the summarizing
\* chain answers with `summary`
return_summarized(summary) ==
    /\ NeedsSummary(messages)
    /\ DropLast(messages, RecentCount) # <<>>
    /\ LET final_messages == SummarizedHistory(variant, messages, summary)
       IN /\ ret' = [op |-> "get_messages_for_llm", result |-> final_messages,
                      llm_called |-> TRUE, llm_ok |-> TRUE, llm_answer |-> summary,
                      raised |-> None,
                      llm_text |-> summary_text(DropLast(messages, RecentCount))]
          /\ summarized_messages' = IF variant = "final" THEN None ELSE final_messages
          /\ current_summary' = IF variant = "final" THEN None ELSE summary
    /\ UNCHANGED <<variant, messages>>

get_messages_for_llm_summarized(summary) ==
    /\ return_summarized(summary)
    /\ SummaryFrame

\* _generate_summary when chain.ainvoke raises, without the try
generate_summary_unguarded(text) == [raised |-> "Exception", summary |-> None]

\* _generate_summary when chain.ainvoke raises: the except branch
generate_summary_failed(text) == [raised |-> None, summary |-> SummaryUnavailable]

\* what get_messages_for_llm does to the history object when the summarizing
\* chain raises
return_after_failure ==
    /\ NeedsSummary(messages)
    /\ DropLast(messages, RecentCount) # <<>>
    /\ LET text == summary_text(DropLast(messages, RecentCount))
           outcome == generate_summary_failed(text)
       IN ret' = [op |-> "get_messages_for_llm",
                  result |-> IF variant # "final" THEN messages
                             ELSE IF outcome.raised # None THEN <<>>
                             ELSE SummarizedHistory(variant, messages, outcome.summary),
                  llm_called |-> TRUE, llm_ok |-> FALSE, llm_answer |-> None,
                  raised |-> IF variant = "final" THEN outcome.raised ELSE None,
                  llm_text |-> text]
    /\ UNCHANGED <<variant, messages, summarized_messages, current_summary>>

get_messages_for_llm_failed ==
    /\ return_after_failure
    /\ SummaryFrame

\* get_messages_for_llm, whatever the summarizing chain does
get_messages_for_llm ==
    \/ return_messages
    \/ \E summary \in Summaries : return_summarized(summary)
    \/ return_after_failure

NextSummary ==
    \/ \E m \in UserMessages : add_message(m)
    \/ clear
    \/ get_messages
    \/ get_messages_for_llm_full
    \/ \E s \in Summaries : get_messages_for_llm_summarized(s)
    \/ get_messages_for_llm_failed

(***************************************************************************)
(* DatabaseService.execute_query (the run_sqlite_query tool)               *)
(* A query is a sequence of tokens: whitespace, comments, ';' and words.   *)
(***************************************************************************)

\* bound: the most rows the orders table grows to
MaxRows == 2

Whitespace == " "

Comment == "/**/"

\* str.upper() on one token
Upper(tok) ==
    CASE tok = "select" -> "SELECT"
      [] tok = "Drop" -> "DROP"
      [] tok = "delete" -> "DELETE"
      [] tok = "update" -> "UPDATE"
      [] tok = "create" -> "CREATE"
      [] tok = "limit" -> "LIMIT"
      [] tok = "count(" -> "COUNT("
      [] tok = "orders" -> "ORDERS"
      [] tok = "t" -> "T"
      [] OTHER -> tok

\* query.upper()
UpperSeq(q) == [i \in 1..Len(q) |-> Upper(q[i])]

\* str.lstrip() / str.rstrip() / str.strip(): whitespace tokens at the ends
RECURSIVE LStrip(_)
LStrip(q) == IF q # <<>> /\ Head(q) = Whitespace THEN LStrip(Tail(q)) ELSE q

RECURSIVE RStrip(_)
RStrip(q) ==
    IF q # <<>> /\ q[Len(q)] = Whitespace THEN RStrip(SubSeq(q, 1, Len(q) - 1)) ELSE q

Strip(q) == RStrip(LStrip(q))

\* query.rstrip(';')
RECURSIVE RStripSemicolon(_)
RStripSemicolon(q) ==
    IF q # <<>> /\ q[Len(q)] = ";"
    THEN RStripSemicolon(SubSeq(q, 1, Len(q) - 1))
    ELSE q

\* 'KEYWORD' in query_upper
Contains(q, tok) == \E i \in 1..Len(q) : q[i] = tok

\* query_upper.startswith(keyword)
StartsWith(q, keyword) == q # <<>> /\ Head(q) = keyword

\* ['COUNT(', 'SUM(', 'AVG(', 'MAX(', 'MIN(', 'GROUP BY']
AggregationKeywords == {"COUNT(", "SUM(", "AVG(", "MAX(", "MIN(", "GROUP BY"}

\* dangerous_keywords = ['DROP', 'DELETE', 'TRUNCATE', 'ALTER', 'UPDATE', 'INSERT']
dangerous_keywords == {"DROP", "DELETE", "TRUNCATE", "ALTER", "UPDATE", "INSERT"}

\* query.rstrip(';') + ' LIMIT 1000'
SafetyLimit == <<Whitespace, "LIMIT", "1000">>

optimize_query_for_large_results(query) ==
    LET query_upper == Strip(UpperSeq(query))
    IN IF Contains(query_upper, "LIMIT")
       THEN query
       ELSE IF StartsWith(query_upper, "SELECT")
               /\ ~(\E k \in AggregationKeywords : Contains(query_upper, k))
            THEN RStripSemicolon(query) \o SafetyLimit
            ELSE query

\* the queries a tool call can carry: optional leading whitespace or comment,
\* a first word in some letter case, and a tail
QueryLeads == {<<>>, <<Whitespace>>, <<Comment>>}

QueryVerbs ==
    {"select", "SELECT", "Drop", "delete", "INSERT", "update", "ALTER", "TRUNCATE",
     "create", "REPLACE"}

QueryTails ==
    {<<>>, <<"orders">>, <<"t">>, <<"nonexistent_table">>, <<"orders", ";">>,
     <<"orders", "limit">>, <<"count(">>, <<"orders", ";", "Drop", "orders">>}

Queries ==
    {<<>>, <<Whitespace>>, <<Comment>>}
        \cup {l \o <<v>> \o t : l \in QueryLeads, v \in QueryVerbs, t \in QueryTails}

TableNames == {"orders", "t"}

InitialDb == [tables |-> {"orders"}, rows |-> 1, altered |-> FALSE]

\* SQLite on one call of cursor.execute(query): the statement it runs, or an
\* sqlite3.Error.  Leading whitespace and comments are skipped, letter case is
\* ignored, and more than one statement is refused.
RECURSIVE SkipTrivia(_)
SkipTrivia(q) ==
    IF q # <<>> /\ Head(q) \in {Whitespace, Comment} THEN SkipTrivia(Tail(q)) ELSE q

\* the statement without a trailing LIMIT clause and ';'
SqlBody(q) ==
    LET stmt == UpperSeq(SkipTrivia(q))
        noLimit == IF Len(stmt) >= 3 /\ Last(stmt, 3) = SafetyLimit
                   THEN DropLast(stmt, 3)
                   ELSE IF stmt # <<>> /\ stmt[Len(stmt)] = "LIMIT"
                        THEN DropLast(stmt, 1)
                        ELSE stmt
    IN RStripSemicolon(noLimit)

SqlError == [error |-> TRUE, db |-> InitialDb, verb |-> "ERROR"]

sqlite_execute(d, q) ==
    LET body == SqlBody(q)
        verb == IF body = <<>> THEN "" ELSE body[1]
        operand == IF Len(body) = 2 THEN body[2] ELSE ""
        table == IF operand = "ORDERS" THEN "orders" ELSE IF operand = "T" THEN "t" ELSE ""
        ok(newdb) == [error |-> FALSE, db |-> newdb, verb |-> verb]
    IN CASE body = <<>> -> ok(d)
         [] Len(body) # 2 -> SqlError
         [] verb = "SELECT" ->
                IF table \in d.tables \/ (operand = "COUNT(" /\ ~Contains(UpperSeq(q), "LIMIT"))
                THEN ok(d) ELSE SqlError
         [] verb = "CREATE" ->
                IF table \in TableNames \ d.tables
                THEN ok([d EXCEPT !.tables = @ \cup {table}]) ELSE SqlError
         [] verb \in {"REPLACE", "INSERT"} ->
                IF table = "orders" /\ table \in d.tables
                THEN ok([d EXCEPT !.rows = @ + 1]) ELSE SqlError
         [] verb = "DELETE" ->
                IF table = "orders" /\ table \in d.tables
                THEN ok([d EXCEPT !.rows = 0]) ELSE SqlError
         [] verb \in {"UPDATE", "ALTER"} ->
                IF table \in d.tables THEN ok([d EXCEPT !.altered = TRUE]) ELSE SqlError
         [] verb = "DROP" ->
                IF table \in d.tables
                THEN ok([d EXCEPT !.tables = @ \ {table},
                                  !.rows = IF table = "orders" THEN 0 ELSE @])
                ELSE SqlError
         [] OTHER -> SqlError

NoQuery == [query |-> <<>>, outcome |-> "none", executed |-> <<>>, committed |-> FALSE]

InitDb ==
    /\ db = InitialDb
    /\ dbret = NoQuery

\* DatabaseService.execute_query(original_query)
execute_query(original_query) ==
    LET query == optimize_query_for_large_results(original_query)
        query_upper == Strip(UpperSeq(query))
        run == sqlite_execute(db, query)
    IN IF Strip(query) = <<>>
       THEN /\ dbret' = [NoQuery EXCEPT !.query = original_query, !.outcome = "empty"]
            /\ UNCHANGED db
       ELSE IF \E keyword \in dangerous_keywords : StartsWith(query_upper, keyword)
       THEN /\ dbret' = [NoQuery EXCEPT !.query = original_query, !.outcome = "blocked"]
            /\ UNCHANGED db
       ELSE IF run.error
       THEN /\ dbret' = [query |-> original_query, outcome |-> "sql_error",
                         executed |-> query, committed |-> FALSE]
            /\ UNCHANGED db
       ELSE IF StartsWith(query_upper, "SELECT")
       THEN /\ dbret' = [query |-> original_query, outcome |-> "rows",
                         executed |-> query, committed |-> FALSE]
            /\ UNCHANGED db
       ELSE /\ run.db.rows <= MaxRows
            /\ dbret' = [query |-> original_query, outcome |-> "rows_affected",
                         executed |-> query, committed |-> TRUE]
            /\ db' = run.db

NextDb == \E q \in Queries : execute_query(q) /\ DbFrame

(***************************************************************************)
(* AgentService and AgentAPI                                               *)
(***************************************************************************)

\* class ModelProvider(Enum) / class AgentType(Enum): the enum values
ModelProviders == {"openai", "deepseek"}

AgentTypes == {"openai_functions", "tool_calling"}

\* MODEL_CONFIGS = {"local": ..., "remote": ..., "claude": ...}
MODEL_CONFIGS == {"local", "remote", "claude"}

\* session ids used by the callers
ServiceSessions == {"default"}

\* str(e) of an exception raised by a library underneath the service
InnerErrors == {"", "boom"}

\* f-strings are kept as sequences of fragments; a text is empty when all are
IsEmptyText(text) == \A i \in 1..Len(text) : text[i] = ""

\* every valid AppConfig: a ModelProvider, and the default AgentType
Configs == [provider : ModelProviders, agent_type : {"tool_calling"}]

\* AgentService.__init__
NewService ==
    [initialized |-> FALSE, agent_factory |-> FALSE, tables_info_cache |-> FALSE,
     tools_cache |-> {}, llm_cache |-> {}, agents |-> {}, sessions |-> {}]

\* what the environment does during one call: whether the tool directories
\* can be made, whether init_chat_model succeeds, whether the agent can be
\* built, whether the agent run succeeds, and the text of a library error
Envs ==
    [tools : {"ok", "database_fails", "reporting_fails"}, llm_ok : BOOLEAN,
     create_ok : BOOLEAN, run_ok : BOOLEAN, inner : InnerErrors]

EnvAllOk(env) == env.tools = "ok" /\ env.llm_ok /\ env.create_ok /\ env.run_ok

\* the part of it an initialize() call meets, and the part a query meets
InitEnvs == {env \in Envs : env.create_ok /\ env.run_ok /\ env.inner = "boom"}

RunEnvs ==
    {env \in Envs :
        /\ env.tools = "ok"
        /\ Cardinality({f \in {"llm_ok", "create_ok", "run_ok"} : ~env[f]}) <= 1
        /\ EnvAllOk(env) => env.inner = "boom"}


\* get_llm(model_type): ValueError for an unknown model type, else whatever
\* init_chat_model does
get_llm_ok(registry, model_type, env) == model_type \in registry /\ env.llm_ok

\* AgentService._init_tools_cache: the cache when it stops, and whether it raised
init_tools_cache(svc, env) ==
    CASE env.tools = "database_fails" -> [svc |-> svc, raised |-> TRUE]
      [] env.tools = "reporting_fails" ->
            [svc |-> [svc EXCEPT !.tools_cache = @ \cup {"database"}], raised |-> TRUE]
      [] OTHER ->
            [svc |-> [svc EXCEPT !.tools_cache = @ \cup {"database", "reporting"}],
             raised |-> FALSE]

\* AgentService._init_llm_cache
init_llm_cache(svc, registry, cfg, env) ==
    IF get_llm_ok(registry, cfg.provider, env)
    THEN [svc |-> [svc EXCEPT !.llm_cache = @ \cup {cfg.provider}], raised |-> FALSE]
    ELSE [svc |-> svc, raised |-> TRUE]

\* AgentService.initialize: the service afterwards and whether it raised
\* AgentServiceError
service_initialize_nocheck(svc, registry, cfg, env) ==
    LET s1 == [svc EXCEPT !.agent_factory = TRUE, !.agents = {}, !.sessions = {},
                          !.tables_info_cache = TRUE]
        t == init_tools_cache(s1, env)
        l == init_llm_cache(t.svc, registry, cfg, env)
    IN IF t.raised THEN t
       ELSE IF l.raised THEN l
       ELSE [svc |-> [l.svc EXCEPT !.initialized = TRUE], raised |-> FALSE]

service_initialize(svc, registry, cfg, env) ==
    IF svc.initialized
    THEN [svc |-> svc, raised |-> FALSE]
    ELSE service_initialize_nocheck(svc, registry, cfg, env)

\* a QueryRequest: agent_type and model_provider may be None
Requests ==
    [session_id : ServiceSessions, agent_type : {None, "tool_calling"},
     model_provider : ModelProviders \cup {None}]

\* a QueryResponse; error_message is None or a text
NoResponse ==
    [present |-> FALSE, success |-> FALSE, output |-> "", metadata |-> {},
     error_is_none |-> TRUE, error_message |-> <<>>]

SuccessResponse ==
    [present |-> TRUE, success |-> TRUE, output |-> "agent output",
     metadata |-> {"agent_type", "model_provider", "execution_time", "session_id"},
     error_is_none |-> TRUE, error_message |-> <<>>]

FailureResponse(text) ==
    [present |-> TRUE, success |-> FALSE, output |-> "", metadata |-> {},
     error_is_none |-> FALSE, error_message |-> text]

\* the result of a call: the object afterwards, the exception class that came
\* out of it (None if it returned) and the response it returned
Returned(svc, response) == [svc |-> svc, raised |-> None, response |-> response]

Raised(svc, error) == [svc |-> svc, raised |-> error, response |-> NoResponse]

\* except Exception as e: ... error_message=f"Unexpected error: {str(e)}"
unexpected_error_propagates(svc, text) == Raised(svc, "AgentServiceError")

unexpected_error(svc, text) == Returned(svc, FailureResponse(<<"Unexpected error: ">> \o text))

\* except AgentExecutionError as e: ... error_message=str(e)
execution_error(svc, text) == Returned(svc, FailureResponse(text))

\* AgentService._ensure_initialized
ensure_initialized_unchecked(svc) == TRUE

ensure_initialized(svc) == svc.initialized

\* AgentService.execute_query(request), _get_or_create_agent, _get_llm,
\* AgentFactory.create_agent and BaseAgent.execute
service_execute_query(svc, registry, cfg, request, env) ==
    LET agent_type == IF request.agent_type # None THEN request.agent_type
                      ELSE cfg.agent_type
        model_provider == IF request.model_provider # None THEN request.model_provider
                          ELSE cfg.provider
        agent_id == <<agent_type, model_provider, request.session_id>>
        cached == model_provider \in svc.llm_cache
        withLlm == [svc EXCEPT !.llm_cache = @ \cup {model_provider}]
        withAgent == [withLlm EXCEPT !.agents = @ \cup {agent_id}]
        ran(s) == IF env.run_ok
                  THEN Returned([s EXCEPT !.sessions = @ \cup {request.session_id}],
                                SuccessResponse)
                  ELSE execution_error(s, <<"Failed to execute query: ", env.inner>>)
    IN IF ~ensure_initialized(svc) THEN Raised(svc, "AgentServiceError")
       ELSE IF agent_id \in svc.agents THEN ran(svc)
       ELSE IF ~cached /\ ~get_llm_ok(registry, model_provider, env)
       THEN unexpected_error(svc, <<"Failed to get LLM: ", env.inner>>)
       ELSE IF ~env.create_ok
       THEN unexpected_error(withLlm,
                <<"Failed to create agent: ", "Failed to create agent: ", env.inner>>)
       ELSE ran(withAgent)

\* AgentService.get_service_info
service_get_service_info(svc) ==
    IF ~ensure_initialized(svc) THEN Raised(svc, "AgentServiceError")
    ELSE Returned(svc, NoResponse)

\* AgentService.clear_session
service_clear_session(svc, session_id) ==
    IF svc.agent_factory THEN [svc EXCEPT !.sessions = @ \ {session_id}] ELSE svc

\* AgentService.clear_all_agents
service_clear_all_agents(svc) ==
    IF svc.agent_factory THEN [svc EXCEPT !.agents = {}, !.sessions = {}] ELSE svc

\* AgentAPI.__init__
NewApi == [initialized |-> FALSE, has_service |-> FALSE, service |-> NewService]

\* AgentAPI._ensure_initialized
api_ensure_initialized(a) == a.initialized /\ a.has_service

NoCallYet ==
    [op |-> "none", raised |-> None, response |-> NoResponse, was_initialized |-> FALSE,
     env_ok |-> FALSE, changed |-> FALSE]

\* the record of a call on `before` (the service or the API object)
Call(op, before, env_ok, result) ==
    [op |-> op, raised |-> result.raised, response |-> result.response,
     was_initialized |-> before.initialized, env_ok |-> env_ok,
     changed |-> result.svc # before]

InitService ==
    /\ model_configs = MODEL_CONFIGS
    /\ config \in Configs
    /\ service = NewService
    /\ api = NewApi
    /\ svcret = NoCallYet

ServiceInitialize ==
    \E env \in InitEnvs :
        LET r == service_initialize(service, model_configs, config, env)
        IN /\ service' = r.svc
           /\ svcret' = Call("service.initialize", service, EnvAllOk(env),
                             IF r.raised THEN Raised(r.svc, "AgentServiceError")
                             ELSE Returned(r.svc, NoResponse))
           /\ UNCHANGED <<model_configs, config, api>>
           /\ ServiceFrame

ServiceExecuteQuery ==
    \E request \in Requests, env \in RunEnvs :
        LET r == service_execute_query(service, model_configs, config, request, env)
        IN /\ service' = r.svc
           /\ svcret' = Call("service.execute_query", service, EnvAllOk(env), r)
           /\ UNCHANGED <<model_configs, config, api>>
           /\ ServiceFrame

ServiceGetServiceInfo ==
    /\ svcret' = Call("service.get_service_info", service, TRUE,
                      service_get_service_info(service))
    /\ UNCHANGED <<model_configs, config, service, api>>
    /\ ServiceFrame

ServiceClearSession ==
    \E session_id \in ServiceSessions :
        /\ service' = service_clear_session(service, session_id)
        /\ svcret' = Call("service.clear_session", service, TRUE,
                          Returned(service_clear_session(service, session_id), NoResponse))
        /\ UNCHANGED <<model_configs, config, api>>
        /\ ServiceFrame

ServiceClearAllAgents ==
    /\ service' = service_clear_all_agents(service)
    /\ svcret' = Call("service.clear_all_agents", service, TRUE,
                      Returned(service_clear_all_agents(service), NoResponse))
    /\ UNCHANGED <<model_configs, config, api>>
    /\ ServiceFrame

\* create_agent_service(config): a new AgentService, initialized
create_agent_service(registry, cfg, env) ==
    service_initialize(NewService, registry, cfg, env)

\* AgentAPI.initialize
api_initialize(a, registry, cfg, env) ==
    LET r == create_agent_service(registry, cfg, env)
    IN IF a.initialized THEN Returned(a, NoResponse)
       ELSE IF r.raised THEN Raised(a, "AgentAPIError")
       ELSE Returned([a EXCEPT !.service = r.svc, !.has_service = TRUE,
                               !.initialized = TRUE], NoResponse)

\* the agent_type / model_provider strings an API caller can pass
ApiAgentTypes == {None, "tool_calling", "bogus_agent"}

ApiModelProviders == ModelProviders \cup {None, "bogus_provider"}

ApiRequests ==
    [session_id : ServiceSessions, agent_type : ApiAgentTypes,
     model_provider : ApiModelProviders]

\* AgentAPI.execute_query
api_execute_query(a, registry, cfg, request, env) ==
    LET r == service_execute_query(a.service, registry, cfg, request, env)
    IN IF ~api_ensure_initialized(a) THEN Raised(a, "AgentAPIError")
       ELSE IF request.agent_type \notin AgentTypes \cup {None}
               \/ request.model_provider \notin ModelProviders \cup {None}
       THEN Raised(a, "AgentAPIError")
       ELSE IF r.raised # None
       THEN Raised([a EXCEPT !.service = r.svc], "AgentAPIError")
       ELSE Returned([a EXCEPT !.service = r.svc], r.response)

\* AgentAPI.get_service_info
api_get_service_info(a) ==
    IF ~api_ensure_initialized(a) THEN Raised(a, "AgentAPIError")
    ELSE IF service_get_service_info(a.service).raised # None
    THEN Raised(a, "AgentServiceError")
    ELSE Returned(a, NoResponse)

\* AgentAPI.clear_session
api_clear_session(a, session_id) ==
    IF ~api_ensure_initialized(a) THEN Raised(a, "AgentAPIError")
    ELSE Returned([a EXCEPT !.service = service_clear_session(@, session_id)], NoResponse)

\* AgentAPI.clear_all_sessions
api_clear_all_sessions(a) ==
    IF ~api_ensure_initialized(a) THEN Raised(a, "AgentAPIError")
    ELSE Returned([a EXCEPT !.service = service_clear_all_agents(@)], NoResponse)

ApiStep(op, env_ok, r) ==
    /\ api' = r.svc
    /\ svcret' = Call(op, api, env_ok, r)
    /\ UNCHANGED <<model_configs, config, service>>
    /\ ServiceFrame

ApiInitialize ==
    \E env \in InitEnvs :
        ApiStep("api.initialize", EnvAllOk(env),
                api_initialize(api, model_configs, config, env))

ApiExecuteQuery ==
    \E request \in ApiRequests, env \in RunEnvs :
        ApiStep("api.execute_query", EnvAllOk(env),
                api_execute_query(api, model_configs, config, request, env))

ApiGetServiceInfo == ApiStep("api.get_service_info", TRUE, api_get_service_info(api))

ApiClearSession ==
    \E session_id \in ServiceSessions :
        ApiStep("api.clear_session", TRUE, api_clear_session(api, session_id))

ApiClearAllSessions ==
    ApiStep("api.clear_all_sessions", TRUE, api_clear_all_sessions(api))

NextService ==
    \/ ServiceInitialize
    \/ ServiceExecuteQuery
    \/ ServiceGetServiceInfo
    \/ ServiceClearSession
    \/ ServiceClearAllAgents
    \/ ApiInitialize
    \/ ApiExecuteQuery
    \/ ApiGetServiceInfo
    \/ ApiClearSession
    \/ ApiClearAllSessions

(***************************************************************************)
(* MessageHistoryManager and ChatMessageHistory                            *)
(* A history object is known by its identity: its index in heap.           *)
(***************************************************************************)

\* the largest max_sessions a manager is built with, the number of history
\* objects ever created and the number of messages in one history
MaxSessionsArg == 2

MaxObjects == 4

MaxHistoryLen == 1

\* session ids, in the order Python compares strings
SessionOrder == <<"a", "b", "c">>

SessionIds == {SessionOrder[i] : i \in 1..Len(SessionOrder)}

SessionRank(session_id) ==
    CHOOSE i \in 1..Len(SessionOrder) : SessionOrder[i] = session_id

\* min(self.histories.keys())
MinKey(histories) ==
    CHOOSE k \in DOMAIN histories :
        \A other \in DOMAIN histories : SessionRank(k) <= SessionRank(other)

HistoryMessages == {"m"}

NoHistories == [session_id \in {} |-> 0]

\* MessageHistoryManager.__init__(max_sessions)
NewManager(max_sessions) == [histories |-> NoHistories, max_sessions |-> max_sessions]

\* ChatMessageHistory.__init__(session_id)
NewHistory(session_id) == [session_id |-> session_id, messages |-> <<>>]

NoManagerCall ==
    [op |-> "none", session_id |-> None, object |-> 0, evicted |-> None, previous |-> 0,
     was_stored |-> FALSE, histories_before |-> NoHistories, heap_before |-> <<>>]

InitHistory ==
    /\ manager \in {NewManager(n) : n \in 1..MaxSessionsArg}
    /\ heap = <<>>
    /\ handed_out = [session_id \in SessionIds |-> 0]
    /\ hmret = NoManagerCall

\* the histories left after the eviction step of get_session_history
evict(histories, max_sessions) ==
    IF Cardinality(DOMAIN histories) >= max_sessions
    THEN [t \in DOMAIN histories \ {MinKey(histories)} |-> histories[t]]
    ELSE histories

\* MessageHistoryManager.get_session_history(session_id)
get_session_history(session_id) ==
    LET histories == manager.histories
        stored == session_id \in DOMAIN histories
        kept == evict(histories, manager.max_sessions)
        object == Len(heap) + 1
    IN /\ stored \/ Len(heap) < MaxObjects
       /\ manager' =
             IF stored THEN manager
             ELSE [manager EXCEPT !.histories =
                      [t \in DOMAIN kept \cup {session_id} |->
                          IF t = session_id THEN object ELSE kept[t]]]
       /\ heap' = IF stored THEN heap ELSE Append(heap, NewHistory(session_id))
       /\ handed_out' = [handed_out EXCEPT ![session_id] = manager'.histories[session_id]]
       /\ hmret' = [op |-> "get_session_history", session_id |-> session_id,
                    object |-> manager'.histories[session_id],
                    evicted |-> IF ~stored /\ kept # histories
                                THEN MinKey(histories) ELSE None,
                    previous |-> handed_out[session_id], was_stored |-> stored,
                    histories_before |-> histories, heap_before |-> heap]
       /\ HistoryFrame

\* ChatMessageHistory.add_message(message) on an object a caller holds
history_add_message(object, message) ==
    /\ Len(heap[object].messages) < MaxHistoryLen
    /\ heap' = [heap EXCEPT ![object].messages = Append(@, message)]
    /\ hmret' = [NoManagerCall EXCEPT !.op = "add_message",
                                      !.session_id = heap[object].session_id,
                                      !.object = object,
                                      !.histories_before = manager.histories,
                                      !.heap_before = heap]
    /\ UNCHANGED <<manager, handed_out>>
    /\ HistoryFrame

\* self.histories[session_id].clear() for the sessions a clear_session call reaches
cleared_by_clear_session_all(histories, session_id) == DOMAIN histories

cleared_by_clear_session(histories, session_id) == {session_id} \cap DOMAIN histories

\* MessageHistoryManager.clear_session(session_id)
manager_clear_session(session_id) ==
    LET cleared == {manager.histories[t] :
                       t \in cleared_by_clear_session(manager.histories, session_id)}
    IN /\ heap' = [o \in DOMAIN heap |->
                      IF o \in cleared THEN [heap[o] EXCEPT !.messages = <<>>] ELSE heap[o]]
       /\ hmret' = [NoManagerCall EXCEPT !.op = "clear_session",
                                         !.session_id = session_id,
                                         !.was_stored = session_id \in DOMAIN manager.histories,
                                         !.histories_before = manager.histories,
                                         !.heap_before = heap]
       /\ UNCHANGED <<manager, handed_out>>
       /\ HistoryFrame

\* MessageHistoryManager.clear_all_sessions()
manager_clear_all_sessions ==
    /\ manager' = [manager EXCEPT !.histories = NoHistories]
    /\ hmret' = [NoManagerCall EXCEPT !.op = "clear_all_sessions",
                                      !.histories_before = manager.histories,
                                      !.heap_before = heap]
    /\ UNCHANGED <<heap, handed_out>>
    /\ HistoryFrame

GetSessionHistory == \E session_id \in SessionIds : get_session_history(session_id)

HistoryAddMessage ==
    \E object \in DOMAIN heap, message \in HistoryMessages :
        history_add_message(object, message)

ManagerClearSession == \E session_id \in SessionIds : manager_clear_session(session_id)

NextHistory ==
    \/ GetSessionHistory
    \/ HistoryAddMessage
    \/ ManagerClearSession
    \/ manager_clear_all_sessions

(***************************************************************************)
(* ReportService                                                           *)
(* A file name is a sequence of characters; a content is a sequence of     *)
(* pieces of HTML text.                                                    *)
(***************************************************************************)

\* the largest clock value and the number of reports written in one run
MaxClock == 1

MaxReports == 3

\* if len(filename) > 100: filename = filename[:100]
MaxFilenameLength == 100

\* the characters \w matches, among those used here
WordChars == {"a", "r", "b", "c", "k", "u", "p", "h", "t", "m", "l", "e", "o", "_",
              "0", "1", "2", "3", "4", "5", "6", "7", "8", "9"}

\* [^\w\-_.] : the characters re.sub replaces
IsInvalidChar(c) == c \notin WordChars \cup {"-", "_", "."}

\* re.sub(r"[^\w\-_.]", "_", filename)
ReplaceInvalid(name) == [i \in 1..Len(name) |-> IF IsInvalidChar(name[i]) THEN "_" ELSE name[i]]

\* filename.strip(". "): name without its longest run of leading and its
\* longest run of trailing characters that are in chars
StripChars(name, chars) ==
    LET leading == CHOOSE k \in 0..Len(name) :
                       /\ \A j \in 1..k : name[j] \in chars
                       /\ k = Len(name) \/ name[k + 1] \notin chars
        trailing == CHOOSE k \in 0..Len(name) :
                        /\ \A j \in 1..k : name[Len(name) + 1 - j] \in chars
                        /\ k = Len(name) \/ name[Len(name) - k] \notin chars
    IN IF leading = Len(name) THEN <<>>
       ELSE SubSeq(name, leading + 1, Len(name) - trailing)

\* str(n) for n >= 0
DigitChars == <<"0", "1", "2", "3", "4", "5", "6", "7", "8", "9">>

RECURSIVE Str(_)
Str(n) == IF n < 10 THEN <<DigitChars[n + 1]>> ELSE Str(n \div 10) \o <<DigitChars[(n % 10) + 1]>>

DotHtml == <<".", "h", "t", "m", "l">>

BackupInfix == <<"_", "b", "a", "c", "k", "u", "p", "_">>

ReportPrefix == <<"r", "e", "p", "o", "r", "t", "_">>

\* s.startswith(prefix) for character sequences
HasPrefix(name, prefix) ==
    Len(name) >= Len(prefix) /\ SubSeq(name, 1, Len(prefix)) = prefix

\* filename.replace(".html", ""): two occurrences of ".html" cannot overlap, so
\* the result is made of the characters that lie in no occurrence
RemoveDotHtml(name) ==
    LET occurs(j) == /\ j >= 1
                     /\ j + Len(DotHtml) - 1 <= Len(name)
                     /\ \A k \in 1..Len(DotHtml) : name[j + k - 1] = DotHtml[k]
        covered(i) == \E j \in (i - Len(DotHtml) + 1)..i : occurs(j)
        kept == SelectSeq([i \in 1..Len(name) |-> i], LAMBDA i : ~covered(i))
    IN [k \in 1..Len(kept) |-> name[kept[k]]]

\* filename[:100], without the limit
truncate_unlimited(name) == name

truncate(name) ==
    IF Len(name) > MaxFilenameLength THEN SubSeq(name, 1, MaxFilenameLength) ELSE name

\* ReportService._sanitize_filename(filename) at time now
sanitize_filename(name, now) ==
    LET stripped == StripChars(ReplaceInvalid(name), {".", " "})
        limited == truncate(stripped)
    IN IF name = <<>> THEN <<>>
       ELSE IF limited = <<>> THEN ReportPrefix \o Str(now)
       ELSE limited

\* content.lower() on one piece of text
Lower(piece) == IF piece = "<HTML>" THEN "<html>" ELSE piece

\* ReportService._is_complete_html(content)
is_complete_html(content) ==
    LET content_lower == [i \in 1..Len(content) |-> Lower(content[i])]
    IN /\ Contains(content_lower, "<html>")
       /\ Contains(content_lower, "</html>")
       /\ Contains(content_lower, "<body>")
       /\ Contains(content_lower, "</body>")

\* ReportService._wrap_in_html_structure(content, title) at time now
wrap_in_html_structure(content, title, now) ==
    <<"<!DOCTYPE html>", "<html lang=en>", "<head>", "<title>">> \o title
        \o <<"</title>", "</head>", "<body>", "Generated on: ">> \o Str(now)
        \o content \o <<"</body>", "</html>">>

\* the report directory after file_path.rename(backup_path) on POSIX
rename(directory, file_path, backup_path) ==
    [path \in (DOMAIN directory \ {file_path}) \cup {backup_path} |->
        IF path = backup_path THEN directory[file_path] ELSE directory[path]]

\* the report directory after open(file_path, "w") and f.write(content)
write(directory, file_path, content) ==
    [path \in DOMAIN directory \cup {file_path} |->
        IF path = file_path THEN content ELSE directory[path]]

EmptyDirectory == [path \in {} |-> <<>>]

NoPaths == {}

NoReportCall ==
    [op |-> "none", filename |-> <<>>, clean_filename |-> <<>>, raised |-> None,
     touched |-> NoPaths, deleted |-> FALSE, content |-> <<>>, files_before |-> EmptyDirectory,
     html_content |-> <<>>, cause |-> None]

\* if not html_content.strip(), without the strip
is_blank_unstripped(html_content) == html_content = <<>>

\* if not html_content.strip()
is_blank(html_content) == Strip(html_content) = <<>>

\* except OSError as e: raise ReportingError(...) from e
write_error(e) == "ReportingError"

\* except Exception as e: a ReportingError is raised again, anything else is
\* raised as a ReportingError
report_exception(e) == IF e = "ReportingError" THEN e ELSE "ReportingError"

\* ReportService.generate_html_report(filename, html_content); write_ok: whether
\* open(file_path, "w") succeeds
generate_html_report(name, html_content, write_ok) ==
    LET clean_filename == sanitize_filename(name, clock)
        file_path == clean_filename \o DotHtml
        backup_path == clean_filename \o BackupInfix \o Str(clock) \o DotHtml
        exists == file_path \in DOMAIN files
        renamed == IF exists THEN rename(files, file_path, backup_path) ELSE files
        content == IF is_complete_html(html_content) THEN html_content
                   ELSE wrap_in_html_structure(html_content, clean_filename, clock)
        call == [NoReportCall EXCEPT !.op = "generate_html_report", !.filename = name,
                                     !.html_content = html_content,
                                     !.clean_filename = clean_filename,
                                     !.files_before = files]
        raise(e, directory, paths) ==
            /\ files' = directory
            /\ rptret' = [call EXCEPT !.raised = report_exception(e), !.cause = e,
                                      !.touched = paths]
            /\ UNCHANGED written
    IN /\ Len(written) < MaxReports
       /\ IF clean_filename = <<>> THEN raise("ReportingError", files, NoPaths)
          ELSE IF is_blank(html_content) THEN raise("ReportingError", files, NoPaths)
          ELSE IF exists /\ platform = "windows" /\ backup_path \in DOMAIN files
          THEN raise("FileExistsError", files, NoPaths)
          ELSE IF ~write_ok
          THEN raise(write_error("OSError"), renamed,
                     IF exists THEN {file_path, backup_path} ELSE NoPaths)
          ELSE /\ files' = write(renamed, file_path, content)
               /\ written' = Append(written, content)
               /\ rptret' = [call EXCEPT !.content = content,
                                         !.touched = IF exists THEN {file_path, backup_path}
                                                     ELSE {file_path}]
       /\ UNCHANGED <<clock, platform, filename>>
       /\ ReportFrame

\* ReportService.delete_report(filename)
delete_report(name) ==
    LET clean_filename == sanitize_filename(RemoveDotHtml(name), clock)
        file_path == clean_filename \o DotHtml
        exists == file_path \in DOMAIN files
    IN /\ files' = [path \in DOMAIN files \ {file_path} |-> files[path]]
       /\ rptret' = [NoReportCall EXCEPT !.op = "delete_report", !.filename = name,
                                         !.clean_filename = clean_filename,
                                         !.touched = IF exists THEN {file_path} ELSE NoPaths,
                                         !.deleted = exists,
                                         !.files_before = files]
       /\ UNCHANGED <<clock, platform, filename, written>>
       /\ ReportFrame

\* one second passes
Tick ==
    /\ clock < MaxClock
    /\ clock' = clock + 1
    /\ UNCHANGED <<files, platform, filename, written, rptret>>
    /\ ReportFrame

\* the html_content arguments: empty, blank, a fragment and a complete document
ReportContents ==
    {<<>>, <<Whitespace>>, <<"b1">>,
     <<"<HTML>", "<body>", "b3", "</body>", "</html>">>}

\* the filename arguments of the report runs: one name used again and again,
\* and a name that looks like one of its backups
ReportNames == {<<"r">>, <<"r">> \o BackupInfix \o Str(0), <<>>}

Platforms == {"posix", "windows"}

InitReport ==
    /\ files = EmptyDirectory
    /\ clock = 0
    /\ platform \in Platforms
    /\ filename = <<>>
    /\ written = <<>>
    /\ rptret = NoReportCall

GenerateHtmlReport ==
    \E name \in ReportNames, html_content \in ReportContents, write_ok \in BOOLEAN :
        generate_html_report(name, html_content, write_ok)

NextReport ==
    \/ GenerateHtmlReport
    \/ Tick

\* the filename arguments whose sanitizing is examined: every short sequence
\* of FilenameChars, and long names around the length limit
FilenameChars == {"a", ".", " ", "/", "\\", "-", "_"}

ShortLength == 2

Run(c, n) == [i \in 1..n |-> c]

ShortNames == UNION {[1..n -> FilenameChars] : n \in 0..ShortLength}

Affixes == UNION {[1..n -> FilenameChars] : n \in 0..1}

LongNames ==
    {prefix \o Run("a", n) \o suffix :
        prefix \in Affixes, suffix \in Affixes,
        n \in (MaxFilenameLength - 1)..(MaxFilenameLength + 1)}

HtmlNames ==
    {DotHtml, <<"a">> \o DotHtml, <<".", "h", "t">> \o DotHtml \o <<"m", "l">>,
     <<"/">> \o DotHtml \o <<".">>}

Filenames == ShortNames \cup LongNames \cup HtmlNames

\* a report service about to be used with one of the filenames
InitSanitize ==
    /\ files = EmptyDirectory
    /\ clock \in 0..MaxClock
    /\ platform = "posix"
    /\ filename \in Filenames
    /\ written = <<>>
    /\ rptret = NoReportCall

GenerateNamed ==
    \E write_ok \in BOOLEAN : generate_html_report(filename, <<"b1">>, write_ok)

DeleteNamed == delete_report(filename)

NextSanitize ==
    \/ GenerateNamed
    \/ DeleteNamed

(***************************************************************************)
(* boolean_search                                                          *)
(* A text is the sequence of words and signs nltk.word_tokenize splits it  *)
(* into.                                                                   *)
(***************************************************************************)

\* the longest query and the largest number of documents
MaxQueryLen == 3

MaxDocuments == 2

\* the words and signs texts are made of
RawWords == {"x", "X", "y", "and", "or", "the", "not", "."}

\* str.lower() on one word
LowerWord(word) == IF word = "X" THEN "x" ELSE word

\* str.isalnum()
IsAlnum(word) == word # "."

Operators == {"and", "or", "not"}

\* set(nltk.corpus.stopwords.words("english")) - {"and", "or", "not"}
stop_words == {"the", "and", "or", "not"} \ Operators

\* process_text_boolean(text)
process_text_boolean(text) ==
    LET lowered == [i \in 1..Len(text) |-> LowerWord(text[i])]
        alnum == SelectSeq(lowered, IsAlnum)
    IN SelectSeq(alnum, LAMBDA word : word \notin stop_words)

\* the loop over query_tokens for one document, from the i-th token on
\* (i counts from 1), include_doc being the value reached so far
RECURSIVE include_doc_from(_, _, _, _)
include_doc_from(query_tokens, doc_tokens, i, include_doc) ==
    LET token == query_tokens[i]
        has_next == i + 1 <= Len(query_tokens)
        next_in_doc == query_tokens[i + 1] \in doc_tokens
        continue(value) == include_doc_from(query_tokens, doc_tokens, i + 1, value)
    IN IF i > Len(query_tokens) THEN include_doc
       ELSE IF token = "and" /\ has_next THEN continue(include_doc /\ next_in_doc)
       ELSE IF token = "or" /\ has_next THEN continue(include_doc \/ next_in_doc)
       ELSE IF token = "not" /\ has_next
       THEN IF next_in_doc THEN FALSE ELSE continue(include_doc)
       ELSE continue(token \in doc_tokens \/ include_doc)

\* set(process_text_boolean(doc))
DocTokens(doc) == {process_text_boolean(doc)[i] : i \in 1..Len(process_text_boolean(doc))}

\* boolean_search(query, documents): the list of (doc_id, doc)
boolean_search(query_text, docs) ==
    LET query_tokens == process_text_boolean(query_text)
        included == SelectSeq([k \in 1..Len(docs) |-> k],
                        LAMBDA k : include_doc_from(query_tokens, DocTokens(docs[k]), 1, FALSE))
    IN [n \in 1..Len(included) |-> <<included[n] - 1, docs[included[n]]>>]

SearchQueries == UNION {[1..n -> RawWords] : n \in 0..MaxQueryLen}

\* the texts a document list is made of
SearchDocs == {<<"X", ".">>, <<"y">>, <<"x", "the", "y">>, <<"the">>}

DocumentLists == UNION {[1..n -> SearchDocs] : n \in 0..MaxDocuments}

NoResults == [done |-> FALSE, results |-> <<>>]

InitSearch ==
    /\ search_query \in SearchQueries
    /\ documents \in DocumentLists
    /\ boolean_results = NoResults

\* boolean_results = boolean_search(query, documents)
BooleanSearch ==
    /\ ~boolean_results.done
    /\ boolean_results' = [done |-> TRUE, results |-> boolean_search(search_query, documents)]
    /\ UNCHANGED <<search_query, documents>>
    /\ SearchFrame

NextSearch == BooleanSearch

(***************************************************************************)
(* retrieve and rag_pipeline                                               *)
(* The embeddings are kept as the distance of the query to each document.  *)
(***************************************************************************)

\* the largest number of indexed documents and the largest top_k
MaxIndexed == 2

MaxTopK == 3

\* if is_relevant(distance, 40)
RelevanceThreshold == 40

\* the distance faiss.IndexFlatL2.search reports in a slot it could not fill
\* (3.4028235e38 in the library)
FltMax == 1000

\* the index faiss.IndexFlatL2.search reports in a slot it could not fill
MissingIndex == 0 - 1

RagTexts == {"d1", "d2"}

QueryDistances == {10, 50}

\* a list of Python: element i (from 0, or from the end when negative)
PyIndex(list, i) == IF i >= 0 THEN list[i + 1] ELSE list[Len(list) + i + 1]

\* the results index.search(query_embedding, top_k) may report: the indices
\* (from 0) of the nearest documents by non-decreasing distance, then missing
\* slots
SearchResults(dist, top_k) ==
    LET n == Len(dist)
        found == IF top_k < n THEN top_k ELSE n
        orders == {o \in [1..found -> 1..n] :
                      /\ \A a, b \in 1..found : a < b => o[a] # o[b] /\ dist[o[a]] <= dist[o[b]]
                      /\ \A a \in 1..found, r \in 1..n :
                            (\A b \in 1..found : o[b] # r) => dist[o[a]] <= dist[r]}
    IN {[indices |-> [k \in 1..top_k |-> IF k <= found THEN o[k] - 1 ELSE MissingIndex],
         distances |-> [k \in 1..top_k |-> IF k <= found THEN dist[o[k]] ELSE FltMax]] :
           o \in orders}

\* retrieved_documents = [documents[i] for i in indices[0]], with every index
\* checked against the index's answer
retrieved_documents_found_only(docs, indices) ==
    LET found == SelectSeq(indices, LAMBDA i : i # MissingIndex)
    IN [k \in 1..Len(found) |-> PyIndex(docs, found[k])]

retrieved_documents(docs, indices) == [k \in 1..Len(indices) |-> PyIndex(docs, indices[k])]

\* is_relevant(distance, threshold) of check_relevance
is_relevant(distance, threshold) == <<distance, threshold>> \in relevance

\* relevant_docs = [doc for doc, distance in zip(...) if is_relevant(distance, 40)],
\* without the condition
relevant_docs_unfiltered(retrieved, distances) == retrieved

relevant_docs(retrieved, distances) ==
    LET n == IF Len(retrieved) < Len(distances) THEN Len(retrieved) ELSE Len(distances)
        kept == SelectSeq([k \in 1..n |-> k],
                          LAMBDA k : is_relevant(distances[k], RelevanceThreshold))
    IN [k \in 1..Len(kept) |-> retrieved[kept[k]]]

\* " ".join(relevant_docs)
RECURSIVE JoinWithSpace(_)
JoinWithSpace(texts) ==
    IF texts = <<>> THEN <<>>
    ELSE IF Len(texts) = 1 THEN texts
    ELSE <<Head(texts), " ">> \o JoinWithSpace(Tail(texts))

NoRagCall ==
    [op |-> "none", top_k |-> 0, indices |-> <<>>, distances |-> <<>>, retrieved |-> <<>>,
     generator_called |-> FALSE, context |-> <<>>, answer |-> <<>>]

InitRag ==
    /\ rag_documents \in UNION {[1..n -> RagTexts] : n \in 1..MaxIndexed}
    /\ query_distances \in [1..Len(rag_documents) -> QueryDistances]
    /\ relevance \in SUBSET ((QueryDistances \cup {FltMax}) \X {RelevanceThreshold})
    /\ ragret = NoRagCall

\* retrieve(query, tokenizer, model, index, documents, top_k)
retrieve(top_k) ==
    \E found \in SearchResults(query_distances, top_k) :
        /\ ragret' = [NoRagCall EXCEPT
                         !.op = "retrieve", !.top_k = top_k,
                         !.indices = found.indices, !.distances = found.distances,
                         !.retrieved = retrieved_documents(rag_documents, found.indices)]
        /\ UNCHANGED <<rag_documents, query_distances, relevance>>
        /\ RagFrame

\* rag_pipeline(query, ..., documents, top_k)
rag_pipeline(top_k) ==
    \E found \in SearchResults(query_distances, top_k) :
        LET retrieved == retrieved_documents(rag_documents, found.indices)
            relevant == relevant_docs(retrieved, found.distances)
            context == JoinWithSpace(relevant)
            call == [NoRagCall EXCEPT
                        !.op = "rag_pipeline", !.top_k = top_k,
                        !.indices = found.indices, !.distances = found.distances,
                        !.retrieved = retrieved]
        IN /\ ragret' =
                 IF relevant = <<>>
                 THEN [call EXCEPT !.answer = <<"No relevant documents found">>]
                 ELSE [call EXCEPT !.generator_called = TRUE, !.context = context,
                                   !.answer = <<"generated answer">>]
           /\ UNCHANGED <<rag_documents, query_distances, relevance>>
           /\ RagFrame

Retrieve == \E top_k \in 1..MaxTopK : retrieve(top_k)

RagPipeline == \E top_k \in 1..MaxTopK : rag_pipeline(top_k)

NextRag ==
    \/ Retrieve
    \/ RagPipeline

(***************************************************************************)
(* chat() of tchat_gpt_with_summary_final.py and run_test_conversation of  *)
(* tchat_gpt_with_summary_test.py, one step per call that can be told      *)
(* apart from outside                                                      *)
(***************************************************************************)

\* the largest number of lines chat() reads
MaxInputs == 4

\* the largest number of stored messages at which a turn is started
MaxChatMessages == 4

\* test_inputs = ["what is 1+1?", "and 3 more?", "and 10 more?"]
TestInputs == 3

UserInputs == {"exit", "QUIT", "q", "Debug", "hi", "a long question"}

\* what the inputs of the test conversation and the answers of the chat model
\* can be
TestContents == {"hi", "a long question"}

Answers == {"hi", "a long question"}

\* user_input.lower()
LowerInput(text) ==
    CASE text = "QUIT" -> "quit"
      [] text = "Debug" -> "debug"
      [] OTHER -> text

\* if user_input.lower() in ["exit", "quit", "q"], without the lower()
IsExitCommandCaseSensitive(text) == text \in {"exit", "quit", "q"}

\* if user_input.lower() in ["exit", "quit", "q"]
IsExitCommand(text) == LowerInput(text) \in {"exit", "quit", "q"}

\* if user_input.lower() == "debug"
IsDebugCommand(text) == LowerInput(text) = "debug"

NothingPrinted == [kind |-> "nothing", messages |-> <<>>]

InitChat ==
    /\ InitSummary
    /\ chat_pc = "input"
    /\ user_input = None
    /\ answer = None
    /\ inputs_read = 0
    /\ model_calls = 0
    /\ chat_event = "started"
    /\ printed = NothingPrinted
    /\ calls_get_history \in BOOLEAN
    /\ prompt_history = <<>>

\* user_input = input(...) and the commands of chat(); the chat() of
\* tchat-gpt-with-summary-final.py has no debug command
ReadInput ==
    /\ variant \in {"final", "root"}
    /\ chat_pc = "input"
    /\ inputs_read < MaxInputs
    /\ \E text \in UserInputs :
          /\ user_input' = text
          /\ inputs_read' = inputs_read + 1
          /\ IF IsExitCommand(text)
             THEN /\ chat_pc' = "done"
                  /\ chat_event' = "exit"
                  /\ printed' = [NothingPrinted EXCEPT !.kind = "goodbye"]
             ELSE IF variant = "final" /\ IsDebugCommand(text)
             THEN /\ chat_pc' = "input"
                  /\ chat_event' = "debug"
                  /\ printed' = [kind |-> "debug", messages |-> messages]
             ELSE /\ Len(messages) <= MaxChatMessages
                  /\ chat_pc' = "check"
                  /\ chat_event' = "turn"
                  /\ printed' = NothingPrinted
    /\ UNCHANGED <<answer, model_calls, calls_get_history, prompt_history>>
    /\ UNCHANGED summaryVars
    /\ ChatFrame

\* input() raises EOFError
EndOfInput ==
    /\ variant \in {"final", "root"}
    /\ chat_pc = "input"
    /\ chat_pc' = "done"
    /\ chat_event' = "eof"
    /\ printed' = [NothingPrinted EXCEPT !.kind = "goodbye"]
    /\ UNCHANGED <<user_input, answer, inputs_read, model_calls, calls_get_history,
                   prompt_history>>
    /\ UNCHANGED summaryVars
    /\ ChatFrame

\* KeyboardInterrupt while chat() waits for the user or for a model
KeyboardInterrupt ==
    /\ variant \in {"final", "root"}
    /\ chat_pc \in {"input", "check", "history", "model"}
    /\ chat_pc' = "done"
    /\ chat_event' = "interrupt"
    /\ printed' = [NothingPrinted EXCEPT !.kind = "goodbye"]
    /\ UNCHANGED <<user_input, answer, inputs_read, model_calls, calls_get_history,
                   prompt_history>>
    /\ UNCHANGED summaryVars
    /\ ChatFrame

\* for user_input in test_inputs
NextTestInput ==
    /\ variant = "test"
    /\ chat_pc = "input"
    /\ inputs_read < TestInputs
    /\ Len(messages) <= MaxChatMessages
    /\ \E text \in TestContents : user_input' = text
    /\ inputs_read' = inputs_read + 1
    /\ chat_pc' = "history"
    /\ chat_event' = "turn"
    /\ printed' = [NothingPrinted EXCEPT !.kind = "input"]
    /\ UNCHANGED <<answer, model_calls, calls_get_history, prompt_history>>
    /\ UNCHANGED summaryVars
    /\ ChatFrame

\* the end of test_inputs
TestCompleted ==
    /\ variant = "test"
    /\ chat_pc = "input"
    /\ inputs_read = TestInputs
    /\ chat_pc' = "done"
    /\ chat_event' = "completed"
    /\ printed' = [NothingPrinted EXCEPT !.kind = "completed"]
    /\ UNCHANGED <<user_input, answer, inputs_read, model_calls, calls_get_history,
                   prompt_history>>
    /\ UNCHANGED summaryVars
    /\ ChatFrame

\* await history_obj.get_messages_for_llm() in chat()
CheckHistory ==
    /\ chat_pc = "check"
    /\ get_messages_for_llm
    /\ chat_pc' = "history"
    /\ chat_event' = "checked"
    /\ UNCHANGED <<user_input, answer, inputs_read, model_calls, printed, calls_get_history,
                   prompt_history>>
    /\ ChatFrame

\* chain_with_history.ainvoke: the history for the prompt, from _get_history
\* when RunnableWithMessageHistory calls it and from history.messages otherwise
GetHistory ==
    /\ chat_pc = "history"
    /\ IF calls_get_history
       THEN /\ get_messages_for_llm
            /\ prompt_history' = ret'.result
       ELSE /\ prompt_history' = messages
            /\ UNCHANGED summaryVars
    /\ chat_pc' = "model"
    /\ chat_event' = "history"
    /\ UNCHANGED <<user_input, answer, inputs_read, model_calls, printed, calls_get_history>>
    /\ ChatFrame

\* chain_with_history.ainvoke: the chat model answers, or raises
InvokeModel ==
    /\ chat_pc = "model"
    /\ model_calls' = model_calls + 1
    /\ \/ /\ \E text \in Answers : answer' = text
          /\ chat_pc' = "save_human"
          /\ chat_event' = "answered"
          /\ UNCHANGED printed
          /\ UNCHANGED prompt_history
       \/ /\ chat_pc' = "input"
          /\ chat_event' = "exception"
          /\ printed' = [NothingPrinted EXCEPT !.kind = "error"]
          /\ prompt_history' = <<>>
          /\ UNCHANGED answer
    /\ UNCHANGED <<user_input, inputs_read, calls_get_history>>
    /\ UNCHANGED summaryVars
    /\ ChatFrame

\* chain_with_history.ainvoke: history.add_messages([input, output]), first message
SaveInput ==
    /\ chat_pc = "save_human"
    /\ append_message(Message("human", <<user_input>>))
    /\ chat_pc' = "save_ai"
    /\ chat_event' = "saved input"
    /\ UNCHANGED <<user_input, answer, inputs_read, model_calls, printed, calls_get_history,
                   prompt_history>>
    /\ ChatFrame

\* chain_with_history.ainvoke: history.add_messages([input, output]), second
\* message, and the answer printed
SaveAnswer ==
    /\ chat_pc = "save_ai"
    /\ append_message(Message("ai", <<answer>>))
    /\ chat_pc' = "input"
    /\ chat_event' = "saved answer"
    /\ printed' = [NothingPrinted EXCEPT !.kind = "answer"]
    /\ answer' = None
    /\ prompt_history' = <<>>
    /\ UNCHANGED <<user_input, inputs_read, model_calls, calls_get_history>>
    /\ ChatFrame

NextChat ==
    \/ ReadInput
    \/ EndOfInput
    \/ KeyboardInterrupt
    \/ NextTestInput
    \/ TestCompleted
    \/ CheckHistory
    \/ GetHistory
    \/ InvokeModel
    \/ SaveInput
    \/ SaveAnswer

\* message_history is a global of the module: what it can hold when the loop
\* starts reading
EarlierMessages == {Message("human", <<"a long question">>)}

AddMessageEarlier ==
    /\ inputs_read = 0
    /\ chat_pc = "input"
    /\ \E m \in EarlierMessages : add_message(m)

\* message_history.clear() while the loop waits for the next line
ClearBetweenTurns ==
    /\ chat_pc = "input"
    /\ clear

NextConversation ==
    \/ NextChat
    \/ AddMessageEarlier
    \/ ClearBetweenTurns
    \/ get_messages

(***************************************************************************)
(* Specifications: one per component, the other components standing still  *)
(***************************************************************************)

\* no conversation started
IdleChat ==
    /\ chat_pc = "not started"
    /\ user_input = None
    /\ answer = None
    /\ inputs_read = 0
    /\ model_calls = 0
    /\ chat_event = "none"
    /\ printed = NothingPrinted
    /\ calls_get_history = TRUE
    /\ prompt_history = <<>>

\* an index over one document, no query made
IdleRag ==
    /\ rag_documents = <<"d1">>
    /\ query_distances = <<10>>
    /\ relevance = {}
    /\ ragret = NoRagCall

\* no search made
IdleSearch ==
    /\ search_query = <<>>
    /\ documents = <<>>
    /\ boolean_results = NoResults


\* a report service with an empty report directory, unused
IdleReport ==
    /\ files = EmptyDirectory
    /\ clock = 0
    /\ platform = "posix"
    /\ filename = <<>>
    /\ written = <<>>
    /\ rptret = NoReportCall

\* a manager as AgentFactory builds it, unused
IdleHistory ==
    /\ manager = NewManager(MaxSessionsArg)
    /\ heap = <<>>
    /\ handed_out = [session_id \in SessionIds |-> 0]
    /\ hmret = NoManagerCall

\* the history object of chat_apps/tchat_gpt_with_summary_final.py, untouched
IdleSummary ==
    /\ variant = "final"
    /\ messages = <<>>
    /\ summarized_messages = None
    /\ current_summary = None
    /\ ret = NoCall

\* a deployment whose MODEL_CONFIGS was given entries named after the providers
InitServiceRegistered ==
    /\ model_configs = MODEL_CONFIGS \cup ModelProviders
    /\ config \in Configs
    /\ service = NewService
    /\ api = NewApi
    /\ svcret = NoCallYet

\* the service and the API, built from the default configuration and unused
IdleService ==
    /\ model_configs = MODEL_CONFIGS
    /\ config = [provider |-> "deepseek", agent_type |-> "tool_calling"]
    /\ service = NewService
    /\ api = NewApi
    /\ svcret = NoCallYet

InitSpecSummary == InitSummary /\ InitDb /\ IdleService /\ IdleHistory /\ IdleReport
    /\ IdleSearch /\ IdleRag /\ IdleChat

SpecSummary == InitSpecSummary /\ [][NextSummary]_vars

InitSpecDb == IdleSummary /\ InitDb /\ IdleService /\ IdleHistory /\ IdleReport
    /\ IdleSearch /\ IdleRag /\ IdleChat

SpecDb == InitSpecDb /\ [][NextDb]_vars

InitSpecService == IdleSummary /\ InitDb /\ InitService /\ IdleHistory /\ IdleReport
    /\ IdleSearch /\ IdleRag /\ IdleChat

SpecService == InitSpecService /\ [][NextService]_vars

InitSpecServiceRegistered == IdleSummary /\ InitDb /\ InitServiceRegistered /\ IdleHistory /\ IdleReport
    /\ IdleSearch /\ IdleRag /\ IdleChat

SpecServiceRegistered == InitSpecServiceRegistered /\ [][NextService]_vars

InitSpecHistory == IdleSummary /\ InitDb /\ IdleService /\ InitHistory /\ IdleReport
    /\ IdleSearch /\ IdleRag /\ IdleChat

SpecHistory == InitSpecHistory /\ [][NextHistory]_vars

InitSpecReport == IdleSummary /\ InitDb /\ IdleService /\ IdleHistory /\ InitReport
    /\ IdleSearch /\ IdleRag /\ IdleChat

SpecReport == InitSpecReport /\ [][NextReport]_vars

InitSpecSanitize == IdleSummary /\ InitDb /\ IdleService /\ IdleHistory /\ InitSanitize
    /\ IdleSearch /\ IdleRag /\ IdleChat

SpecSanitize == InitSpecSanitize /\ [][NextSanitize]_vars

InitSpecSearch ==
    IdleSummary /\ InitDb /\ IdleService /\ IdleHistory /\ IdleReport /\ InitSearch /\ IdleRag /\ IdleChat

SpecSearch == InitSpecSearch /\ [][NextSearch]_vars

InitSpecRag ==
    IdleSummary /\ InitDb /\ IdleService /\ IdleHistory /\ IdleReport /\ IdleSearch /\ InitRag /\ IdleChat

SpecRag == InitSpecRag /\ [][NextRag]_vars

InitSpecChat ==
    InitChat /\ InitDb /\ IdleService /\ IdleHistory /\ IdleReport /\ IdleSearch /\ IdleRag

SpecChat == InitSpecChat /\ [][NextChat]_vars

SpecConversation == InitSpecChat /\ [][NextConversation]_vars

(***************************************************************************)
(* Claims                                                                  *)
(***************************************************************************)

\* the list is a summary system message followed by the last two stored messages
IsSummarizedHistory(result, msgs) ==
    /\ Len(result) = 1 + RecentCount
    /\ result[1].type = "system"
    /\ Tail(result) = Last(msgs, RecentCount)
    /\ result # msgs

\* C1 (as stated): whenever the stored history has more than max_tokens tokens,
\* get_messages_for_llm returns a summarized history (summary message plus the
\* recent messages) instead of the full stored list.
C1_SummarizesWheneverOverLimit ==
    (ret.op = "get_messages_for_llm" /\ total_tokens(messages) > max_tokens)
        => IsSummarizedHistory(ret.result, messages)

\* C1 (amended): get_messages_for_llm returns a summarized history whenever the
\* stored history has more than max_tokens tokens AND holds at least 4 messages
\* (and, in the two caching files, the summarizing call did not raise);
\* otherwise it returns the stored list itself.
C1_SummarizesOverLimitWithFourMessages ==
    ret.op = "get_messages_for_llm" =>
        IF /\ total_tokens(messages) > max_tokens
           /\ Len(messages) >= 4
           /\ (variant = "final" \/ ret.llm_ok)
        THEN IsSummarizedHistory(ret.result, messages)
        ELSE ret.result = messages

C1_Witness ==
    /\ ret.op = "get_messages_for_llm"
    /\ total_tokens(messages) > max_tokens
    /\ Len(messages) >= 4
    /\ ret.llm_called
    /\ IsSummarizedHistory(ret.result, messages)

\* the statement SQLite sees in a query: its first word, upper-cased
StatementVerb(q) == LET body == SqlBody(q) IN IF body = <<>> THEN "" ELSE body[1]

\* C2: execute_query only ever executes SELECT statements: every query that is
\* not a SELECT is rejected and never reaches cursor.execute / commit, so the
\* database is never modified by any sequence of tool calls.  (Stated leniently:
\* no statement other than a SELECT is run to completion and committed, and the
\* database keeps its initial content.)
C2_OnlySelectReachesDatabase ==
    /\ dbret.committed => StatementVerb(dbret.executed) \in {"", "SELECT"}
    /\ db = InitialDb

\* C3: on an initialized AgentService execute_query never raises: a failure
\* while looking up, creating or executing the agent yields a response with
\* success=False, output "", metadata {} and a non-empty error_message, and a
\* response with success=True has error_message None.
C3_ExecuteQueryNeverRaises ==
    (svcret.op = "service.execute_query" /\ svcret.was_initialized) =>
        /\ svcret.raised = None
        /\ svcret.response.present
        /\ svcret.response.success => svcret.response.error_is_none
        /\ ~svcret.response.success =>
              /\ svcret.response.output = ""
              /\ svcret.response.metadata = {}
              /\ ~svcret.response.error_is_none
              /\ ~IsEmptyText(svcret.response.error_message)

C3_Witness ==
    /\ svcret.op = "service.execute_query"
    /\ svcret.was_initialized
    /\ svcret.response.present
    /\ ~svcret.response.success
    /\ svcret.response.error_message[1] = "Unexpected error: "

\* C4: before initialize() has completed successfully, AgentService.execute_query
\* and get_service_info raise AgentServiceError and AgentAPI.execute_query,
\* get_service_info, clear_session and clear_all_sessions raise AgentAPIError; a
\* failed initialize() leaves the object uninitialized; initialize() on an
\* initialized object changes nothing.
C4_UninitializedCallsRaise ==
    /\ (svcret.op \in {"service.execute_query", "service.get_service_info"}
            /\ ~svcret.was_initialized)
        => (svcret.raised = "AgentServiceError" /\ ~svcret.changed)
    /\ (svcret.op \in {"api.execute_query", "api.get_service_info", "api.clear_session",
                        "api.clear_all_sessions"}
            /\ ~svcret.was_initialized)
        => (svcret.raised = "AgentAPIError" /\ ~svcret.changed)
    /\ (svcret.op = "service.initialize" /\ svcret.raised # None)
        => (svcret.raised = "AgentServiceError" /\ ~service.initialized)
    /\ (svcret.op = "api.initialize" /\ svcret.raised # None)
        => (svcret.raised = "AgentAPIError" /\ ~api.initialized /\ ~api.has_service)
    /\ (svcret.op \in {"service.initialize", "api.initialize"} /\ svcret.was_initialized)
        => (svcret.raised = None /\ ~svcret.changed)
    /\ service.initialized =>
          (service.agent_factory /\ config.provider \in service.llm_cache)

\* a call raised on a service whose initialize() had failed before
C4_Witness ==
    /\ svcret.op = "service.execute_query"
    /\ ~svcret.was_initialized
    /\ svcret.raised = "AgentServiceError"
    /\ service.agent_factory
    /\ api.initialized

\* C5: create_agent_service(config) returns an initialized service for every
\* valid AppConfig: the provider name handed to get_llm is a known model type,
\* so initialize() completes (when nothing outside the program fails) and the
\* service is initialized.
C5_CreateAgentServiceInitializes ==
    /\ (svcret.op = "service.initialize" /\ svcret.env_ok)
        => (svcret.raised = None /\ service.initialized)
    /\ (svcret.op = "api.initialize" /\ svcret.env_ok)
        => (svcret.raised = None /\ api.initialized)

\* the messages of session t as the manager shows them
VisibleMessages(histories, objects, t) == objects[histories[t]].messages

\* a message added to session s is not visible in another session, and
\* clear_session(s) empties only s and keeps the set of known sessions
HistoriesAreSeparate ==
    /\ hmret.op = "add_message" =>
          \A t \in DOMAIN manager.histories \ {hmret.session_id} :
              VisibleMessages(manager.histories, heap, t)
                  = VisibleMessages(hmret.histories_before, hmret.heap_before, t)
    /\ hmret.op = "clear_session" =>
          /\ manager.histories = hmret.histories_before
          /\ \A t \in DOMAIN manager.histories :
                VisibleMessages(manager.histories, heap, t)
                    = IF t = hmret.session_id THEN <<>>
                      ELSE VisibleMessages(hmret.histories_before, hmret.heap_before, t)
          /\ ~hmret.was_stored => heap = hmret.heap_before

\* C6 (as stated): get_session_history(s) returns the same history object on
\* every call for the same s; a message added to s is never visible in another
\* session; clear_session(s) empties only the messages of s and leaves the other
\* sessions and the set of known sessions unchanged (no-op for an unknown s).
C6_SameHistoryOnEveryCall ==
    /\ (hmret.op = "get_session_history" /\ hmret.previous # 0)
        => hmret.object = hmret.previous
    /\ HistoriesAreSeparate

\* C6 (amended): get_session_history(s) returns the same history object as the
\* previous call for s as long as s is still stored, and a new empty history
\* otherwise (s was evicted or clear_all_sessions was called, or s is new);
\* histories of different sessions are separate objects; clear_session(s)
\* empties only s.
C6_SameHistoryWhileStored ==
    /\ (hmret.op = "get_session_history" /\ hmret.was_stored)
        => /\ hmret.object = hmret.previous
           /\ manager.histories = hmret.histories_before
           /\ heap = hmret.heap_before
    /\ (hmret.op = "get_session_history" /\ ~hmret.was_stored)
        => /\ hmret.object \notin DOMAIN hmret.heap_before
           /\ heap[hmret.object] = NewHistory(hmret.session_id)
    /\ \A t1, t2 \in DOMAIN manager.histories :
          manager.histories[t1] = manager.histories[t2] => t1 = t2
    /\ HistoriesAreSeparate

C6_Witness ==
    /\ hmret.op = "get_session_history"
    /\ hmret.was_stored
    /\ hmret.object = hmret.previous
    /\ VisibleMessages(manager.histories, heap, hmret.session_id) # <<>>
    /\ \E t \in DOMAIN manager.histories \ {hmret.session_id} :
          VisibleMessages(manager.histories, heap, t) # <<>>
    /\ \E t \in SessionIds : handed_out[t] # 0 /\ t \notin DOMAIN manager.histories

\* the session created earliest among the stored ones
OldestSession(histories) ==
    CHOOSE k \in DOMAIN histories : \A other \in DOMAIN histories : histories[k] <= histories[other]

\* C7: when get_session_history is called for a new session id while
\* max_sessions histories are stored, exactly one session is removed, it is the
\* one created earliest, and no other session loses its history.
C7_EvictsOldestSession ==
    (hmret.op = "get_session_history" /\ ~hmret.was_stored
        /\ Cardinality(DOMAIN hmret.histories_before) >= manager.max_sessions)
    => /\ hmret.evicted = OldestSession(hmret.histories_before)
       /\ DOMAIN manager.histories
             = (DOMAIN hmret.histories_before \ {hmret.evicted}) \cup {hmret.session_id}
       /\ \A t \in DOMAIN hmret.histories_before \ {hmret.evicted} :
             /\ manager.histories[t] = hmret.histories_before[t]
             /\ heap[manager.histories[t]] = hmret.heap_before[manager.histories[t]]

\* C8: generate_html_report never loses a previously written report: after a
\* successful call, the content written by every earlier successful call still
\* exists in some file of the report directory.
C8_NoReportLost ==
    (rptret.op = "generate_html_report" /\ rptret.raised = None) =>
        \A i \in 1..Len(written) : \E path \in DOMAIN files : files[path] = written[i]

\* the characters allowed in a sanitized name, and the path separators
AllowedChars == WordChars \cup {"-", "_", "."}

PathSeparators == {"/", "\\"}

HasOnly(name, chars) == \A i \in 1..Len(name) : name[i] \in chars

\* every file written, renamed or deleted lies directly inside the report
\* directory, and the sanitized name has only allowed characters and at most
\* 100 of them
SanitizedNameIsSafe ==
    /\ HasOnly(rptret.clean_filename, AllowedChars \ PathSeparators)
    /\ Len(rptret.clean_filename) <= MaxFilenameLength
    /\ \A path \in rptret.touched :
          /\ HasOnly(path, AllowedChars \ PathSeparators)
          /\ HasPrefix(path, rptret.clean_filename)
          /\ path \notin {<<".">>, <<".", ".">>}

\* C9 (as stated): for every filename given to generate_html_report or
\* delete_report the sanitized name contains only word characters, '-', '_' and
\* '.', no path separator, is at most 100 characters long and is never empty, and
\* the files touched lie directly inside the report directory.
C9_SanitizedNameNeverEmpty ==
    rptret.op \in {"generate_html_report", "delete_report"} =>
        /\ SanitizedNameIsSafe
        /\ rptret.clean_filename # <<>>

\* C9 (amended): as above, except that the sanitized name is empty exactly when
\* the filename given is empty (for delete_report: empty once ".html" has been
\* removed from it); generate_html_report then raises ReportingError and touches
\* no file, and delete_report looks only for the file ".html" of the directory.
C9_SanitizedNameEmptyOnlyForEmptyFilename ==
    /\ rptret.op = "generate_html_report" =>
          /\ SanitizedNameIsSafe
          /\ rptret.clean_filename = <<>> <=> rptret.filename = <<>>
          /\ rptret.clean_filename = <<>> =>
                (rptret.raised = "ReportingError" /\ files = rptret.files_before)
    /\ rptret.op = "delete_report" =>
          /\ SanitizedNameIsSafe
          /\ rptret.clean_filename = <<>> <=> RemoveDotHtml(rptret.filename) = <<>>
          /\ rptret.touched \subseteq {rptret.clean_filename \o DotHtml}

C9_Witness ==
    /\ rptret.op = "delete_report"
    /\ rptret.deleted
    /\ Len(rptret.filename) > MaxFilenameLength
    /\ Len(rptret.clean_filename) = MaxFilenameLength
    /\ \E i \in 1..Len(rptret.filename) : rptret.filename[i] \in PathSeparators

RECURSIVE RelevantContextFrom(_, _, _, _)
RelevantContextFrom(retrieved, distances, k, first) ==
    IF k > Len(retrieved) THEN <<>>
    ELSE IF is_relevant(distances[k], RelevanceThreshold)
         THEN (IF first THEN <<>> ELSE <<" ">>) \o <<retrieved[k]>>
                  \o RelevantContextFrom(retrieved, distances, k + 1, FALSE)
         ELSE RelevantContextFrom(retrieved, distances, k + 1, first)

NoneRelevant(call) ==
    \A k \in 1..Len(call.retrieved) : ~is_relevant(call.distances[k], RelevanceThreshold)

\* C11: the context rag_pipeline hands to the generator is exactly the retrieved
\* documents whose distance satisfies is_relevant(distance, 40), joined by spaces
\* in retrieval order; when none is relevant it returns "No relevant documents
\* found" and the generator is not called.
C11_ContextIsRelevantDocuments ==
    ragret.op = "rag_pipeline" =>
        IF NoneRelevant(ragret)
        THEN /\ ~ragret.generator_called
             /\ ragret.answer = <<"No relevant documents found">>
        ELSE /\ ragret.generator_called
             /\ ragret.context =
                    RelevantContextFrom(ragret.retrieved, ragret.distances, 1, TRUE)

\* a call that kept one retrieved document and dropped another
C11_Witness ==
    /\ ragret.op = "rag_pipeline"
    /\ ragret.generator_called
    /\ Len(ragret.retrieved) >= 2
    /\ \E k \in 1..Len(ragret.retrieved) :
           ~is_relevant(ragret.distances[k], RelevanceThreshold)
    /\ ragret.context # <<>>

OnlyWhitespace(text) == \A i \in 1..Len(text) : text[i] = Whitespace

\* C12: generate_html_report raises ReportingError and leaves every file of the
\* report directory as it was (nothing written, nothing renamed) when the
\* filename is empty or the html_content is empty or only whitespace; whatever
\* else goes wrong inside it is raised as ReportingError too.
C12_InvalidArgumentsRaiseAndTouchNothing ==
    rptret.op = "generate_html_report" =>
        /\ rptret.filename = <<>> \/ OnlyWhitespace(rptret.html_content) =>
               /\ rptret.raised = "ReportingError"
               /\ files = rptret.files_before
               /\ rptret.touched = NoPaths
        /\ rptret.cause # None => rptret.raised = "ReportingError"

\* a blank report for a name that already has a file, and a call that failed in
\* the rename of the backup
C12_Witness ==
    /\ rptret.op = "generate_html_report"
    /\ rptret.filename # <<>>
    /\ rptret.html_content = <<Whitespace>>
    /\ (rptret.clean_filename \o DotHtml) \in DOMAIN files
    /\ rptret.raised = "ReportingError"

C12_WitnessOtherException ==
    /\ rptret.op = "generate_html_report"
    /\ rptret.cause = "FileExistsError"
    /\ rptret.raised = "ReportingError"

\* the call summarized: the summarizing chain was invoked and its answer, or in
\* tchat_gpt_with_summary_final.py the text that stands in for it, was used
Summarized(v, call) ==
    /\ call.op = "get_messages_for_llm"
    /\ call.llm_called
    /\ call.llm_ok \/ v = "final"

UsedSummary(call) == IF call.llm_ok THEN call.llm_answer ELSE SummaryUnavailable

\* C13: when get_messages_for_llm of chat_apps summarizes, it returns exactly
\* three messages: the system message "Previous conversation summary: <summary>",
\* then the last two stored messages in their order; and the text given to the
\* summarizer has one "type: content" line for each stored message but the last
\* two, in order.
C13_SummaryThenLastTwo ==
    (variant \in {"final", "test"} /\ Summarized(variant, ret)) =>
        LET n == Len(messages)
        IN /\ Len(ret.result) = 3
           /\ ret.result[1] = [type |-> "system", content |-> <<SummaryPrefix, UsedSummary(ret)>>]
           /\ ret.result[2] = messages[n - 1]
           /\ ret.result[3] = messages[n]
           /\ Len(ret.llm_text) = n - 2
           /\ \A i \in 1..(n - 2) :
                  ret.llm_text[i] = <<messages[i].type, ": ", messages[i].content>>

\* a summary of two older messages of different types
C13_Witness ==
    /\ variant \in {"final", "test"}
    /\ Summarized(variant, ret)
    /\ ret.llm_ok
    /\ Len(messages) >= 4
    /\ messages[1].type # messages[2].type
    /\ messages[Len(messages) - 1] # messages[Len(messages)]

\* the loop is in its turn number `turn`, and every earlier turn appended one
\* human and one AI message to a history that was empty when the loop started
InTurn(turn) ==
    /\ chat_pc \in {"history", "model"}
    /\ inputs_read = turn
    /\ Len(messages) = 2 * (turn - 1)

\* C14: the summarizer is never invoked while the history holds fewer than 4
\* messages; so in a conversation whose turns each append one human and one AI
\* message, get_messages_for_llm returns the stored messages as they are in the
\* first two turns (summarization can first happen in the third).
C14_NoSummaryBeforeThirdTurn ==
    /\ (ret.op = "get_messages_for_llm" /\ ret.llm_called) => Len(messages) >= 4
    /\ \A turn \in 1..2 :
           (InTurn(turn) /\ ret.op = "get_messages_for_llm") =>
               /\ ret.result = messages
               /\ ~ret.llm_called

\* the summarizer invoked in the third turn
C14_Witness ==
    /\ InTurn(3)
    /\ ret.op = "get_messages_for_llm"
    /\ ret.llm_called
    /\ Len(ret.result) = 3

\* the first two turns of such a conversation, with a full history returned
C14_WitnessSecondTurn ==
    /\ InTurn(2)
    /\ ret.op = "get_messages_for_llm"
    /\ total_tokens(messages) > max_tokens

\* C15: in tchat_gpt_with_summary_final.py a failing summarizer never makes
\* get_messages_for_llm raise: the call returns the system message "Previous
\* conversation summary: Previous conversation context unavailable due to
\* summarization error." followed by the last two stored messages.
C15_FailedSummaryIsReplaced ==
    (variant = "final" /\ ret.op = "get_messages_for_llm" /\ ret.llm_called /\ ~ret.llm_ok) =>
        /\ ret.raised = None
        /\ ret.result =
               <<[type |-> "system",
                  content |-> <<"Previous conversation summary: ",
                                "Previous conversation context unavailable due to summarization error.">>],
                 messages[Len(messages) - 1], messages[Len(messages)]>>

C15_Witness ==
    /\ variant = "final"
    /\ ret.op = "get_messages_for_llm"
    /\ ret.llm_called
    /\ ~ret.llm_ok
    /\ Len(messages) >= 4

CachingVariants == {"root", "test"}

HasCache == summarized_messages # None

\* C16: in the caching variants the cached summarized list is absent or is the
\* summary message followed by the last two messages of the stored list as it
\* is now; add_message and clear leave no cache; get_messages returns the cache
\* when there is one and the stored list otherwise.
C16_CacheMatchesStoredMessages ==
    variant \in CachingVariants =>
        /\ HasCache =>
               /\ Len(messages) >= 2
               /\ Len(summarized_messages) = 3
               /\ summarized_messages[1].type = "system"
               /\ variant = "test" =>
                      summarized_messages[1].content = <<SummaryPrefix, current_summary>>
               /\ summarized_messages[2] = messages[Len(messages) - 1]
               /\ summarized_messages[3] = messages[Len(messages)]
        /\ ret.op \in {"add_message", "clear"} => ~HasCache
        /\ ret.op = "get_messages" =>
               ret.result = IF HasCache THEN summarized_messages ELSE messages

\* get_messages answered from the cache
C16_Witness ==
    /\ variant \in CachingVariants
    /\ HasCache
    /\ ret.op = "get_messages"
    /\ ret.result # messages

\* clear called when the loop has summarized
C16_WitnessClear ==
    /\ variant \in CachingVariants
    /\ ret.op = "clear"
    /\ current_summary = None
    /\ inputs_read >= 3

\* the step is a call of get_messages_for_llm by the loop
IsGetMessagesForLlm ==
    /\ chat_pc = "check" \/ (chat_pc = "history" /\ calls_get_history)
    /\ chat_pc' # chat_pc
    /\ ret'.op = "get_messages_for_llm"

OverLimit(msgs) == Len(msgs) >= 4 /\ total_tokens(msgs) > max_tokens

\* C17: in tchat_gpt_with_summary_final.py get_messages_for_llm never changes
\* the stored list; the list changes only by add_message, which appends exactly
\* one message, and by clear; and while the list holds at least 4 messages and
\* more than max_tokens tokens every get_messages_for_llm call invokes the
\* summarizer anew, both calls of one chat() turn included.
C17_OnlyAddAndClearChangeMessages ==
    [][variant = "final" =>
          /\ IsGetMessagesForLlm => messages' = messages
          /\ messages' # messages =>
                 \/ ret'.op = "add_message" /\ Len(messages') = Len(messages) + 1
                       /\ SubSeq(messages', 1, Len(messages)) = messages
                 \/ ret'.op = "clear" /\ messages' = <<>>
          /\ (IsGetMessagesForLlm /\ OverLimit(messages)) => ret'.llm_called]_vars

\* the second get_messages_for_llm call of a turn has invoked the summarizer,
\* as the first did
C17_Witness ==
    /\ variant = "final"
    /\ chat_pc = "model"
    /\ calls_get_history
    /\ ret.op = "get_messages_for_llm"
    /\ ret.llm_called
    /\ OverLimit(messages)

\* C18: retrieve returns only documents the index reported as nearest
\* neighbours, in the reported order (non-decreasing distance), none of them
\* twice, and at most min(top_k, number indexed) of them; a slot the index
\* marks as missing (index -1, when top_k exceeds the number indexed) yields no
\* document.
C18_OnlyReportedNeighbours ==
    ragret.op = "retrieve" =>
        LET reported == SelectSeq(ragret.indices, LAMBDA i : i # MissingIndex)
            n == Len(rag_documents)
        IN /\ Len(ragret.retrieved) = Len(reported)
           /\ \A k \in 1..Len(reported) : ragret.retrieved[k] = rag_documents[reported[k] + 1]
           /\ \A a, b \in 1..Len(reported) : a < b =>
                  /\ reported[a] # reported[b]
                  /\ query_distances[reported[a] + 1] <= query_distances[reported[b] + 1]
           /\ Len(ragret.retrieved) <= (IF ragret.top_k < n THEN ragret.top_k ELSE n)

ExitWords == {"exit", "Exit", "EXIT", "quit", "Quit", "QUIT", "q", "Q"}

DebugWords == {"debug", "Debug", "DEBUG"}

\* the step reads a line
ReadsLine == chat_pc = "input" /\ inputs_read' = inputs_read + 1

\* C19: in chat() of tchat_gpt_with_summary_final.py the input exit, quit or q,
\* in any case, ends the loop without a call of the model and without a change
\* of the history; debug prints the history and goes on to the next line, also
\* without calling the model or changing the history; an exception during a
\* turn is printed and the loop goes on; and the loop ends only by an exit
\* command, the end of the input or a keyboard interrupt.
C19_ChatCommands ==
    [][variant = "final" =>
          /\ (ReadsLine /\ user_input' \in ExitWords) =>
                 /\ chat_pc' = "done"
                 /\ model_calls' = model_calls
                 /\ messages' = messages
          /\ (ReadsLine /\ user_input' \in DebugWords) =>
                 /\ chat_pc' = "input"
                 /\ printed' = [kind |-> "debug", messages |-> messages]
                 /\ model_calls' = model_calls
                 /\ messages' = messages
          /\ (chat_pc # "done" /\ chat_event' = "exception") =>
                 /\ printed'.kind = "error"
                 /\ chat_pc' = "input"
          /\ (chat_pc # "done" /\ chat_pc' = "done") =>
                 \/ ReadsLine /\ user_input' \in ExitWords
                 \/ chat_event' \in {"eof", "interrupt"}]_vars

\* the loop left by QUIT after a turn that was answered
C19_Witness ==
    /\ variant = "final"
    /\ chat_pc = "done"
    /\ chat_event = "exit"
    /\ user_input = "QUIT"
    /\ model_calls >= 1
    /\ Len(messages) >= 2

\* the loop reading again after an exception, and after debug
C19_WitnessException ==
    /\ variant = "final"
    /\ chat_pc = "input"
    /\ chat_event = "exception"
    /\ printed.kind = "error"

C19_WitnessDebug ==
    /\ variant = "final"
    /\ chat_event = "debug"
    /\ user_input = "Debug"
    /\ printed.messages # <<>>

====
